---- MODULE Spec2Model ----
(***************************************************************************)
(* The queued-retry delivery core of the Notion sync worker                *)
(* (src/src/index.js): handleTurnResolved, writeToNotion, queueInKV and    *)
(* processQueue, with the KV namespace as the shared store and one         *)
(* process per inbound request and per background sweep.  A handler is     *)
(* split at its awaits on shared state: the KV calls.  The outbound fetch  *)
(* touches no shared state and is taken together with the code before it.  *)
(***************************************************************************)
EXTENDS Integers, Sequences, FiniteSets, TLC

\* ------------------------------------------------------------------ bounds
MaxReqs == 2        \* inbound requests in one behaviour
MaxRand == 2        \* distinct values of the random key suffix
MaxElapse == 2      \* half-days that pass in one behaviour
MaxFaults == 1      \* calls on the KV namespace that throw in one behaviour

\* ------------------------------------------------------- program constants
expirationTtl == 86400
RateLimitCeiling == 5
FailureCeiling == 3

TtlMs == expirationTtl * 1000
HalfDayMs == TtlMs \div 2

Bodies == {"unparsable", "nonobject", "object"}
Responses == {"ok", "429", "error", "throw"}

ReqIds == 1..MaxReqs

VARIABLES
    env,         \* the bindings of the deployment
    kvFaults,    \* how many more calls on the KV namespace may throw
    now,         \* Date.now(), in ms
    store,       \* QUEUE_KV: key -> stored item, keys past their TTL removed
    stamped,     \* the latest value of Date.now() used in a queue key
    reqs,        \* position of each handleTurnResolved invocation
    sweeps,      \* the processQueue invocation started by each of them
    out,         \* what the latest step emitted: response, outbound calls
    attempts,    \* per key: how many re-attempts sweeps made, and their outcomes
    delivered    \* keys a sweep deleted after a successful re-attempt

vars == <<env, kvFaults, now, stamped, store, reqs, sweeps, out, attempts, delivered>>

\* ------------------------------------------------------------ writeToNotion
CredentialsConfigured(e) == e.NOTION_API_KEY /\ e.NOTION_DATABASE_ID

Classify(resp) ==
    CASE resp = "429"   -> [success |-> FALSE, rateLimited |-> TRUE,  error |-> "",
                            fetched |-> TRUE]
      [] resp = "error" -> [success |-> FALSE, rateLimited |-> FALSE,
                            error |-> "Notion API error: status", fetched |-> TRUE]
      [] resp = "ok"    -> [success |-> TRUE,  rateLimited |-> FALSE, error |-> "",
                            fetched |-> TRUE]
      [] OTHER          -> [success |-> FALSE, rateLimited |-> FALSE,
                            error |-> "fetch failed", fetched |-> TRUE]

writeToNotion_NoCredentialCheck(turnData, e, resp) == Classify(resp)

writeToNotion_CredentialsRateLimited(turnData, e, resp) ==
    IF ~CredentialsConfigured(e)
    THEN [success |-> FALSE, rateLimited |-> TRUE,
          error |-> "Notion API credentials not configured", fetched |-> FALSE]
    ELSE Classify(resp)

writeToNotion(turnData, e, resp) ==
    IF ~CredentialsConfigured(e)
    THEN [success |-> FALSE, rateLimited |-> FALSE,
          error |-> "Notion API credentials not configured", fetched |-> FALSE]
    ELSE Classify(resp)

Outcome(result) ==
    IF result.success THEN "delivered"
    ELSE IF result.rateLimited THEN "rateLimited" ELSE "failed"

\* --------------------------------------------------------------- the store
NoItem == [data |-> 0, timestamp |-> 0, retries |-> 0]
NoResult == [success |-> FALSE, rateLimited |-> FALSE, error |-> "", fetched |-> FALSE]

KeyLess(a, b) == a[1] < b[1] \/ (a[1] = b[1] /\ a[2] < b[2])

RECURSIVE SortedKeys(_)
SortedKeys(S) ==
    IF S = {} THEN <<>>
    ELSE LET m == CHOOSE x \in S : \A y \in S : y = x \/ KeyLess(x, y)
         IN  <<m>> \o SortedKeys(S \ {m})

\* A stored value with the metadata the namespace keeps for it: when it was
\* put and when it expires (put time + expirationTtl).
Put_NoTtl(st, k, item, t) ==
    [x \in DOMAIN st \cup {k} |->
        IF x = k THEN [data |-> item.data, timestamp |-> item.timestamp,
                       retries |-> item.retries, putAt |-> t,
                       exp |-> t + RateLimitCeiling * TtlMs]
        ELSE st[x]]

Put(st, k, item, t) ==
    [x \in DOMAIN st \cup {k} |->
        IF x = k THEN [data |-> item.data, timestamp |-> item.timestamp,
                       retries |-> item.retries, putAt |-> t,
                       exp |-> t + TtlMs]
        ELSE st[x]]

Delete(st, k) == [x \in DOMAIN st \ {k} |-> st[x]]

Get(st, k) ==
    [data |-> st[k].data, timestamp |-> st[k].timestamp, retries |-> st[k].retries]

Expire(st, t) == [x \in {y \in DOMAIN st : st[y].exp > t} |-> st[x]]

\* --------------------------------------------------------------- queueInKV
queueKey(t, rnd) == <<t, rnd>>

queueInKV_CountsFirstTry(turnData, e, st, t, rnd, ok) ==
    IF ~e.QUEUE_KV THEN st
    ELSE IF ok
         THEN Put(st, queueKey(t, rnd),
                  [data |-> turnData, timestamp |-> t, retries |-> 1], t)
         ELSE st

queueInKV(turnData, e, st, t, rnd, ok) ==
    IF ~e.QUEUE_KV THEN st
    ELSE IF ok
         THEN Put(st, queueKey(t, rnd),
                  [data |-> turnData, timestamp |-> t, retries |-> 0], t)
         ELSE st

\* Whether queueInKV returns to its caller rather than throwing: it always
\* does, its put is inside a try whose catch only logs (lines 176, 190-192).
queueInKVReturns_NoCatch(e, ok) == ~e.QUEUE_KV \/ ok

queueInKVReturns(e, ok) == TRUE

\* ------------------------------------------------------------ processQueue
Retried(item) == [item EXCEPT !.retries = item.retries + 1]

Ceiling_Single(result) == RateLimitCeiling

Ceiling_Swapped(result) ==
    IF result = "rateLimited" THEN FailureCeiling ELSE RateLimitCeiling

Ceiling(result) == IF result = "rateLimited" THEN RateLimitCeiling ELSE FailureCeiling

Deletes_OffByOne(item, result) ==
    result = "delivered" \/ ~(Retried(item).retries <= Ceiling(result))

Deletes(item, result) ==
    result = "delivered" \/ ~(Retried(item).retries < Ceiling(result))

processItem(st, k, item, result, t, ok) ==
    IF ~ok THEN st
    ELSE IF Deletes(item, result) THEN Delete(st, k)
    ELSE Put(st, k, Retried(item), t)

\* ---------------------------------------------------------------- processes
NoSweep == [pc |-> "none", keys |-> <<>>, item |-> NoItem, result |-> "none"]

\* The history of re-attempts of one key: their number, and "rateLimited" or
\* "failed" while they all had that outcome, "mixed" otherwise.
NoAttempts == [n |-> 0, kind |-> "none"]
Attempted(a, outcome) ==
    [n |-> a.n + 1,
     kind |-> IF a.kind \in {"none", outcome} /\ outcome # "delivered"
              THEN outcome ELSE "mixed"]
NoKey == <<0, 0>>
NoOut == [step |-> "none", req |-> 0, body |-> "none", outcome |-> "none",
          status |-> 0, error |-> "", queued |-> FALSE, fetches |-> 0,
          key |-> NoKey, keys |-> <<>>, read |-> 0, threw |-> FALSE,
          storeChanged |-> FALSE, sweepsChanged |-> FALSE]

Running(s) == sweeps[s].pc \in {"list", "get", "write"}
InFlight == Cardinality({r \in ReqIds : reqs[r] = "enqueue" \/ Running(r)})
Quiescent == InFlight = 0

OpOutcomes == IF kvFaults > 0 THEN BOOLEAN ELSE {TRUE}
Thrown(ok) == IF ok THEN kvFaults ELSE kvFaults - 1

\* An outbound round trip takes time: the clock moves past the millisecond
\* of the latest queue key (later milliseconds are indistinguishable).
Tick(t) == IF t = stamped THEN t + 1 ELSE t

\* QUEUE_KV outlives the invocations and the deployments (the secrets may
\* have been removed since).  What earlier traffic left in it:
\* nothing, or one item after n re-attempts by non-overlapping sweeps that
\* were all rate-limited (n < 5) or all generic failures (n < 3).
SeedKey == queueKey(0, 1)
Seeds ==
    {[kind |-> "none", n |-> 0]}
    \cup {[kind |-> "rateLimited", n |-> n] : n \in 0..(RateLimitCeiling - 1)}
    \cup {[kind |-> "failed", n |-> n] : n \in 1..(FailureCeiling - 1)}

InitWith(bindings, faults, seeds) ==
    /\ env \in [NOTION_API_KEY : BOOLEAN, NOTION_DATABASE_ID : BOOLEAN, QUEUE_KV : bindings]
    /\ kvFaults = faults
    /\ now = 0
    /\ stamped = 0
    /\ \E seed \in seeds :
         /\ store = IF seed.kind = "none" THEN <<>>
                    ELSE Put(<<>>, SeedKey,
                             [data |-> 0, timestamp |-> 0, retries |-> seed.n], 0)
         /\ attempts = IF seed.kind = "none" THEN <<>>
                       ELSE [k \in {SeedKey} |->
                               [n |-> seed.n,
                                kind |-> IF seed.n = 0 THEN "none" ELSE seed.kind]]
    /\ reqs = [r \in ReqIds |-> "new"]
    /\ sweeps = [r \in ReqIds |-> NoSweep]
    /\ out = NoOut
    /\ delivered = {}

\* The store as README.md sets it up: the QUEUE_KV namespace is bound and its
\* calls do not throw.
Init == InitWith({TRUE}, 0, Seeds)

\* The store unavailable: the binding may be missing, the calls may throw.
InitFault == InitWith(BOOLEAN, MaxFaults, {seed \in Seeds : seed.n = 0})

\* ------------------------------------------------------ handleTurnResolved
Respond_QueuesDelivered(result) ==
    IF result.success \/ result.rateLimited
    THEN [pc |-> "enqueue", status |-> 0, error |-> ""]
    ELSE [pc |-> "done", status |-> 500,
          error |-> IF result.error = "" THEN "Failed to write to Notion"
                    ELSE result.error]

Respond_QueuesFailed(result) ==
    IF result.success THEN [pc |-> "done", status |-> 200, error |-> ""]
    ELSE [pc |-> "enqueue", status |-> 0, error |-> ""]

Respond_QueuesAll(result) == [pc |-> "enqueue", status |-> 0, error |-> ""]

Respond(result) ==
    IF result.success THEN [pc |-> "done", status |-> 200, error |-> ""]
    ELSE IF result.rateLimited THEN [pc |-> "enqueue", status |-> 0, error |-> ""]
    ELSE [pc |-> "done", status |-> 500,
          error |-> IF result.error = "" THEN "Failed to write to Notion"
                    ELSE result.error]

Validate_NoTypeCheck(body) ==
    CASE body = "unparsable" -> [pass |-> FALSE, status |-> 500, error |-> "SyntaxError"]
      [] OTHER               -> [pass |-> TRUE, status |-> 0, error |-> ""]

Validate(body) ==
    CASE body = "unparsable" -> [pass |-> FALSE, status |-> 500, error |-> "SyntaxError"]
      [] body = "nonobject"  -> [pass |-> FALSE, status |-> 400,
                                 error |-> "Invalid request body"]
      [] OTHER               -> [pass |-> TRUE, status |-> 0, error |-> ""]

\* Lines 28-47 and 63-72: parse, validate, first Delivery Attempt, and the
\* response unless the attempt was rate-limited.
Receive(r, body, resp) ==
    /\ reqs[r] = "new"
    /\ IF r = 1 THEN TRUE ELSE reqs[r - 1] # "new"
    /\ UNCHANGED <<env, kvFaults, stamped, store, sweeps, attempts, delivered>>
    /\ LET v == Validate(body)
           result == IF v.pass THEN writeToNotion(r, env, resp) ELSE NoResult
           a == IF v.pass THEN Respond(result)
                ELSE [pc |-> "done", status |-> v.status, error |-> v.error]
           n == IF result.fetched THEN 1 ELSE 0
       IN  \* no fetch is made: the response is not an input of the step
           /\ ~(v.pass /\ CredentialsConfigured(env)) => resp = "ok"
           /\ reqs' = [reqs EXCEPT ![r] = a.pc]
           /\ out' = [NoOut EXCEPT
                        !.step = "receive", !.req = r, !.body = body,
                        !.outcome = IF v.pass THEN Outcome(result) ELSE "none",
                        !.status = a.status, !.error = a.error, !.fetches = n,
                        !.storeChanged = store' # store,
                        !.sweepsChanged = sweeps' # sweeps]
           /\ now' = IF result.fetched THEN Tick(now) ELSE now

\* Line 53: processQueue is called and runs up to its first await (the list
\* call, or its return when QUEUE_KV is not bound); ctx.waitUntil takes the
\* promise and the handler goes on to its response.
waitUntil_Awaited(e) == [NoSweep EXCEPT !.pc = "done"]

waitUntil(e) ==
    IF e.QUEUE_KV THEN [NoSweep EXCEPT !.pc = "list"]
    ELSE [NoSweep EXCEPT !.pc = "done"]

\* Lines 48-62: queueInKV, processQueue up to its first await, the response.
Enqueue(r, rnd, ok) ==
    /\ reqs[r] = "enqueue"
    /\ LET k == queueKey(now, rnd)
           persisted == env.QUEUE_KV /\ ok
       IN  /\ store' = queueInKV(r, env, store, now, rnd, ok)
           /\ attempts' = IF persisted
                          THEN [x \in DOMAIN attempts \cup {k} |->
                                  IF x = k THEN NoAttempts
                                  ELSE attempts[x]]
                          ELSE attempts
           /\ delivered' = IF persisted THEN delivered \ {k} ELSE delivered
    /\ stamped' = IF env.QUEUE_KV THEN now ELSE stamped
    /\ sweeps' = [sweeps EXCEPT ![r] =
          IF queueInKVReturns(env, ok) THEN waitUntil(env) ELSE NoSweep]
    /\ reqs' = [reqs EXCEPT ![r] = "done"]
    /\ out' = [NoOut EXCEPT
                 !.step = "enqueue", !.req = r, !.body = "object",
                 !.outcome = "rateLimited",
                 !.status = IF queueInKVReturns(env, ok) THEN 202 ELSE 500,
                 !.error = IF queueInKVReturns(env, ok) THEN "" ELSE "put failed",
                 !.queued = queueInKVReturns(env, ok),
                 !.key = queueKey(now, rnd),
                 !.threw = env.QUEUE_KV /\ ~ok,
                 !.storeChanged = store' # store,
                 !.sweepsChanged = sweeps' # sweeps]
    /\ kvFaults' = IF env.QUEUE_KV THEN Thrown(ok) ELSE kvFaults
    /\ ~env.QUEUE_KV => ok     \* no KV call is made: nothing can throw
    /\ UNCHANGED <<env, now>>

\* ------------------------------------------------------------ processQueue
Advance(sw) ==
    IF Len(sw.keys) > 1
    THEN [pc |-> "get", keys |-> Tail(sw.keys), item |-> NoItem, result |-> "none"]
    ELSE [NoSweep EXCEPT !.pc = "done"]

\* Lines 207-246: the loop goes on to the next listed key after an item,
\* also when a call on the store threw (the catch of lines 243-245).
AfterItem_NoInnerCatch(sw, ok) ==
    IF ok THEN Advance(sw) ELSE [NoSweep EXCEPT !.pc = "done"]

AfterItem(sw, ok) == Advance(sw)

\* Line 205.
SweepList(s, ok) ==
    /\ sweeps[s].pc = "list"
    /\ sweeps' = [sweeps EXCEPT ![s] =
          IF ok /\ DOMAIN store # {}
          THEN [NoSweep EXCEPT !.pc = "get", !.keys = SortedKeys(DOMAIN store)]
          ELSE [NoSweep EXCEPT !.pc = "done"]]
    /\ out' = [NoOut EXCEPT !.step = "list", !.req = s, !.threw = ~ok, !.sweepsChanged = sweeps' # sweeps]
    /\ kvFaults' = Thrown(ok)
    /\ UNCHANGED <<env, now, stamped, store, reqs, attempts, delivered>>

\* Lines 209-213: get the item and re-attempt the delivery.
SweepGet(s, resp, ok) ==
    /\ sweeps[s].pc = "get"
    /\ LET k == Head(sweeps[s].keys)
           present == ok /\ k \in DOMAIN store
           item == IF present THEN Get(store, k) ELSE NoItem
           result == IF present THEN writeToNotion(item.data, env, resp) ELSE NoResult
       IN  \* no fetch is made: the response is not an input of the step
           /\ ~(present /\ CredentialsConfigured(env)) => resp = "ok"
           /\ sweeps' = [sweeps EXCEPT ![s] =
                 IF present THEN [@ EXCEPT !.pc = "write", !.item = item,
                                           !.result = Outcome(result)]
                 ELSE AfterItem(@, ok)]
           /\ attempts' = IF present
                          THEN [attempts EXCEPT ![k] = Attempted(@, Outcome(result))]
                          ELSE attempts
           /\ out' = [NoOut EXCEPT
                        !.step = "get", !.req = s, !.key = k,
                        !.keys = sweeps[s].keys, !.threw = ~ok,
                        !.outcome = IF present THEN Outcome(result) ELSE "none",
                        !.fetches = IF result.fetched THEN 1 ELSE 0,
                        !.sweepsChanged = sweeps' # sweeps]
           /\ now' = IF result.fetched THEN Tick(now) ELSE now
    /\ kvFaults' = Thrown(ok)
    /\ UNCHANGED <<env, stamped, store, reqs, delivered>>

\* Lines 215-242: delete or re-put the item according to the outcome.
SweepWrite(s, ok) ==
    /\ sweeps[s].pc = "write"
    /\ LET k == Head(sweeps[s].keys)
           item == sweeps[s].item
           result == sweeps[s].result
       IN  /\ store' = processItem(store, k, item, result, now, ok)
           /\ delivered' = IF ok /\ result = "delivered" THEN delivered \cup {k}
                           ELSE delivered
    /\ sweeps' = [sweeps EXCEPT ![s] = AfterItem(@, ok)]
    /\ out' = [NoOut EXCEPT
                 !.step = "write", !.req = s, !.key = Head(sweeps[s].keys),
                 !.keys = sweeps[s].keys,
                 !.outcome = sweeps[s].result, !.read = sweeps[s].item.retries,
                 !.threw = ~ok,
                 !.storeChanged = store' # store,
                 !.sweepsChanged = sweeps' # sweeps]
    /\ kvFaults' = Thrown(ok)
    /\ UNCHANGED <<env, now, stamped, reqs, attempts>>

\* ------------------------------------------------------------- TTL expiry
\* Half a day passes.  An invocation lasts seconds, so none is in flight.
Elapse ==
    /\ Quiescent
    /\ now < MaxElapse * HalfDayMs
    /\ now' = now + HalfDayMs
    /\ store' = Expire(store, now')
    /\ out' = [NoOut EXCEPT !.step = "elapse", !.storeChanged = store' # store]
    /\ UNCHANGED <<env, kvFaults, stamped, reqs, sweeps, attempts, delivered>>

Next ==
    \/ \E r \in ReqIds, body \in Bodies, resp \in Responses : Receive(r, body, resp)
    \/ \E r \in ReqIds, rnd \in 1..MaxRand, ok \in OpOutcomes : Enqueue(r, rnd, ok)
    \/ \E s \in ReqIds, ok \in OpOutcomes : SweepList(s, ok)
    \/ \E s \in ReqIds, resp \in Responses, ok \in OpOutcomes : SweepGet(s, resp, ok)
    \/ \E s \in ReqIds, ok \in OpOutcomes : SweepWrite(s, ok)
    \/ Elapse

Spec == Init /\ [][Next]_vars

SpecFault == InitFault /\ [][Next]_vars

\* ------------------------------------------------------------------ claims
Wrote(s) == sweeps[s].pc = "write" /\ sweeps'[s] # sweeps[s]
WriteKey(s) == Head(sweeps[s].keys)

\* C1: a request whose first Delivery Attempt is rate-limited is not answered
\* with an error but goes on to queueInKV, which persists a new item wrapping
\* the event with retries = 0, and the request is answered 202, queued: true.
C1_QueuedOn429 ==
    /\ (out.step = "receive" /\ out.outcome = "rateLimited")
          => reqs[out.req] = "enqueue" /\ out.status = 0 /\ out.error = ""
    /\ out.step = "enqueue"
          => /\ out.outcome = "rateLimited"
             /\ out.status = 202 /\ out.queued /\ reqs[out.req] = "done"
             /\ out.key \in DOMAIN store
             /\ store[out.key].data = out.req /\ store[out.key].retries = 0

C1_Witness ==
    /\ out.status = 202 /\ out.queued
    /\ \E k \in DOMAIN store : store[k].data = out.req /\ store[k].retries = 0

\* C2: a valid request whose first outbound call succeeds is answered 200, and
\* the step changes neither the store nor any sweep.
C2_DeliveredNotQueued ==
    (out.step = "receive" /\ out.outcome = "delivered")
       => /\ out.status = 200 /\ ~out.queued
          /\ reqs[out.req] = "done"
          /\ ~out.storeChanged /\ ~out.sweepsChanged

C2_Witness ==
    /\ out.outcome = "delivered" /\ out.status = 200
    /\ DOMAIN store # {}
    /\ \A s \in ReqIds : sweeps[s].pc = "none"

\* C3: a rate-limited re-attempt of an item read with retries = n re-puts it
\* with retries n + 1 while n + 1 is 1, 2, 3 or 4, and deletes it exactly when
\* n + 1 is 5; no stored item has retries above 4.
C3_RateLimitedCeiling ==
    /\ \A k \in DOMAIN store : store[k].retries <= 4
    /\ (out.step = "write" /\ out.outcome = "rateLimited")
          => LET n == out.read + 1
             IN  IF n < 5
                 THEN out.key \in DOMAIN store /\ store[out.key].retries = n
                 ELSE n = 5 /\ out.key \notin DOMAIN store

C3_Witness ==
    \E k \in DOMAIN attempts :
        /\ attempts[k] = [n |-> 5, kind |-> "rateLimited"]
        /\ k \notin DOMAIN store
        /\ \A s \in ReqIds : sweeps[s].pc \in {"none", "done"}

\* C4: a re-attempt that fails generically on an item read with retries = n
\* re-puts it with retries n + 1 while n + 1 is 1 or 2, and deletes it when
\* n + 1 reaches 3.
C4_FailureCeiling ==
    (out.step = "write" /\ out.outcome = "failed")
       => LET n == out.read + 1
          IN  IF n < 3
              THEN out.key \in DOMAIN store /\ store[out.key].retries = n
              ELSE out.key \notin DOMAIN store

C4_Witness ==
    \E k \in DOMAIN attempts :
        /\ attempts[k] = [n |-> 3, kind |-> "failed"]
        /\ k \notin DOMAIN store
        /\ \A s \in ReqIds : sweeps[s].pc \in {"none", "done"}

\* C5: an item whose re-attempt is delivered is deleted by that sweep step and
\* its key never appears in the store again (unless a later request is queued
\* under the same key).
C5_DeliveredStaysDeleted == \A k \in delivered : k \notin DOMAIN store

\* C6: in every interleaving, each write of processQueue that leaves the key
\* in the store leaves it with a retries value above the one stored before.
C6_RetryCountIncreases ==
    [][\A s \in ReqIds :
         Wrote(s) => LET k == WriteKey(s)
                     IN  (k \in DOMAIN store /\ k \in DOMAIN store')
                            => store'[k].retries > store[k].retries]_vars

\* C7: delete is terminal: a sweep never puts back a key that is no longer in
\* the store, also when it read the item before the deletion.
C7_DeleteIsTerminal ==
    [][\A s \in ReqIds :
         Wrote(s) => LET k == WriteKey(s)
                     IN  k \notin DOMAIN store => k \notin DOMAIN store']_vars

\* C8: over the lifetime of a key the sweeps make at most 5 re-attempts when
\* they were all rate-limited and at most 3 when they all failed generically.
C8_BoundedAttempts ==
    \A k \in DOMAIN attempts :
        /\ attempts[k].kind = "rateLimited" => attempts[k].n <= 5
        /\ attempts[k].kind = "failed" => attempts[k].n <= 3

\* C9: with the API key or the database id absent no step makes an outbound
\* call; a valid request is answered with the failed outcome, reason
\* "credentials not configured"; nothing is queued and no sweep is started.
C9_NoCallWithoutCredentials ==
    ~CredentialsConfigured(env)
       => /\ out.fetches = 0
          /\ out.body = "object"
                => /\ out.outcome = "failed" /\ out.status = 500 /\ ~out.queued
                   /\ out.error = "Notion API credentials not configured"
          /\ out.storeChanged => out.step = "elapse"
          /\ \A r \in ReqIds : reqs[r] # "enqueue" /\ sweeps[r].pc = "none"

C9_Witness ==
    /\ ~CredentialsConfigured(env)
    /\ out.body = "object" /\ out.status = 500
    /\ out.error = "Notion API credentials not configured"

\* C10: a request whose body does not parse, or parses to something that is
\* not an object, is answered with an error without any outbound call, and
\* changes neither the store nor any sweep.
C10_MalformedRejected ==
    (out.step = "receive" /\ out.body \in {"unparsable", "nonobject"})
       => /\ out.status \in {400, 500} /\ ~out.queued
          /\ out.fetches = 0 /\ out.outcome = "none"
          /\ reqs[out.req] = "done"
          /\ ~out.storeChanged /\ ~out.sweepsChanged

C10_Witness ==
    /\ out.body = "nonobject" /\ out.status = 400
    /\ DOMAIN store # {}
    /\ CredentialsConfigured(env)

\* C11: a request whose body is not parsable JSON is answered with status 400
\* and the error "Invalid request body".
C11_UnparsableIs400 ==
    (out.step = "receive" /\ out.body = "unparsable")
       => out.status = 400 /\ out.error = "Invalid request body"

\* C12: a first Delivery Attempt that fails generically is surfaced to the
\* caller as the failed outcome and nothing is queued; a request goes on to
\* queueInKV exactly when its first attempt was rate-limited.
C12_FailureNotQueued ==
    /\ (out.step = "receive" /\ out.outcome = "failed")
          => /\ out.status = 500 /\ out.error # "" /\ ~out.queued
             /\ reqs[out.req] = "done"
             /\ ~out.storeChanged /\ ~out.sweepsChanged
    /\ out.step = "receive"
          => (reqs[out.req] = "enqueue" <=> out.outcome = "rateLimited")

C12_Witness ==
    /\ out.step = "receive" /\ out.outcome = "failed" /\ out.fetches = 1
    /\ out.status = 500 /\ reqs[out.req] = "done"
    /\ DOMAIN store # {}

C14_QueueFailureIsSilent ==
    /\ (out.step = "enqueue" /\ (~env.QUEUE_KV \/ out.threw))
          => /\ out.status = 202 /\ out.queued /\ out.error = ""
             /\ reqs[out.req] = "done"
             /\ ~out.storeChanged
    /\ ~env.QUEUE_KV
          => /\ out.step \notin {"list", "get", "write"}
             /\ out.step = "enqueue" => out.fetches = 0 /\ ~out.threw
             /\ out.storeChanged => out.step = "elapse"
             /\ \A s \in ReqIds : sweeps[s].pc \in {"none", "done"}
             /\ \A k \in DOMAIN attempts : attempts[k].n = 0

C14_Witness ==
    /\ ~env.QUEUE_KV
    /\ out.step = "enqueue" /\ out.status = 202 /\ out.queued
    /\ sweeps[out.req].pc = "done"
    /\ DOMAIN store # {}

\* C15: the 202 response of a queued request is returned while the sweep it
\* started has made no Delivery Attempt and no store call has completed: the
\* response is emitted by the step that starts the sweep.
C15_RespondsBeforeSweep ==
    out.step = "enqueue"
       => /\ out.status = 202 /\ out.queued /\ out.fetches = 0
          /\ reqs[out.req] = "done"
          /\ sweeps[out.req] = [NoSweep EXCEPT !.pc = "list"]

C15_Witness ==
    /\ out.step = "enqueue" /\ out.status = 202
    /\ sweeps[out.req].pc = "list"
    /\ Cardinality(DOMAIN store) = 2
    /\ \E s \in ReqIds : s # out.req /\ sweeps[s].pc = "write"

\* C16: when the get, put or delete of one item throws inside a sweep, the
\* store is left as it was (the item keeps its last-persisted state) and the
\* sweep goes on with the remaining listed keys.
C16_ItemFailureIsolated ==
    (out.step \in {"get", "write"} /\ out.threw)
       => /\ ~out.storeChanged
          /\ out.key = Head(out.keys)
          /\ IF Len(out.keys) > 1
             THEN /\ sweeps[out.req].pc = "get"
                  /\ sweeps[out.req].keys = Tail(out.keys)
             ELSE sweeps[out.req].pc = "done"

C16_Witness ==
    /\ out.step = "write" /\ out.threw
    /\ Len(out.keys) > 1
    /\ sweeps[out.req].pc = "get"
    /\ out.key \in DOMAIN store /\ store[out.key].retries = out.read

\* C17: a sweep is started by the queueInKV step of a request whose first
\* attempt was rate-limited, one per such request, and by nothing else: not
\* by a request with another outcome, not by the passing of time.  Stored
\* items are re-attempted and changed only by the steps of such a sweep;
\* otherwise they only leave the store by expiry.
C17_SweepOnlyAfterEnqueue ==
    /\ out.step = "receive"
          => /\ ~out.sweepsChanged /\ ~out.storeChanged
             /\ reqs[out.req] = "enqueue" => out.outcome = "rateLimited"
    /\ out.step = "elapse" => ~out.sweepsChanged
    /\ out.step = "enqueue"
          => sweeps[out.req].pc = "list" /\ reqs[out.req] = "done"
    /\ \A r \in ReqIds : sweeps[r].pc # "none" => reqs[r] = "done"
    /\ out.step \in {"list", "get", "write"}
          => sweeps[out.req].pc # "none" /\ reqs[out.req] = "done"
    /\ out.storeChanged => out.step \in {"enqueue", "write", "elapse"}
    /\ (\A r \in ReqIds : sweeps[r].pc = "none")
          => \A k \in DOMAIN store : k = SeedKey /\ store[k].putAt = 0

C17_Witness ==
    /\ out.step = "elapse" /\ out.storeChanged
    /\ \A r \in ReqIds : sweeps[r].pc = "none"
    /\ \E r \in ReqIds : reqs[r] = "done"
    /\ SeedKey \in DOMAIN attempts /\ attempts[SeedKey].n = 2
    /\ DOMAIN store = {}

\* C18: the keys generated by queueInKV never collide: no queueInKV step puts
\* its item under a key that holds the item persisted by another one.
C18_KeysNeverCollide ==
    [][\A r \in ReqIds :
         (reqs[r] = "enqueue" /\ reqs'[r] = "done")
            => out'.key \notin DOMAIN store]_vars

C20_SingleCounter ==
    /\ \A k \in DOMAIN store : store[k].retries \in 0..(RateLimitCeiling - 1)
    /\ (out.step = "write" /\ out.outcome = "failed")
          => /\ out.key \in DOMAIN store => store[out.key].retries <= 2
             /\ out.read >= 2 => out.key \notin DOMAIN store
    /\ (out.step = "write" /\ out.key \in DOMAIN store
           /\ store[out.key].retries >= 3)
          => out.outcome = "rateLimited"
    /\ Cardinality({s \in ReqIds : sweeps[s].pc # "none"}) <= 1
          => \A k \in DOMAIN store :
                attempts[k].n = store[k].retries
                   + (IF \E s \in ReqIds : /\ sweeps[s].pc = "write"
                                           /\ Head(sweeps[s].keys) = k
                      THEN 1 ELSE 0)

C20_Witness ==
    /\ out.step = "write" /\ out.outcome = "failed" /\ out.read = 4
    /\ out.key \notin DOMAIN store
    /\ attempts[out.key] = [n |-> 5, kind |-> "mixed"]
    /\ \A s \in ReqIds : s # out.req => sweeps[s].pc = "none"
====
